---- MODULE Spec2Model ----
(***************************************************************************)
(* Model of the dashboard generator (src/main.py): the DeMark and Wyckoff  *)
(* evaluators, the price cache, and the two scanners.                      *)
(*                                                                         *)
(* Python sequences are 0-based; the sequences below are 1-based, so the   *)
(* Python index i is position i+1 here (close[-1] is close[Len(close)]).   *)
(***************************************************************************)
EXTENDS Integers, Sequences, FiniteSets, TLC

VARIABLES
    pc,             \* position of the running operation
    close,          \* the close series handed to an evaluator
    dmFlags,        \* compute_dm_signals' return value (once pc = "done")
    wySignal,       \* compute_wyckoff_signals' return value (once pc = "done")
    now,            \* the wall clock read by the running operation
    cache,          \* cache/price_cache_<key>.pkl: existing keys -> stored mapping
    fetch_calls,    \* number of Ticker(batch).history() calls made so far
    tickers,        \* list(ticker_sector_map.keys())
    interval_label, \* the timeframe label, also the cache key
    interval,       \* the bar interval asked of the provider
    price_data,     \* the mapping load_or_fetch_price_data returned
    idx,            \* position of the per-ticker loop in price_data
    results,        \* scan_timeframe's results: Tops and Bottoms
    sector_counts,  \* scan_timeframe's sector_counts: Tops and Bottoms
    candle_date,    \* scan_timeframe's candle_date
    wy_ret,         \* scan_wyckoff_signals' return value
    report          \* what main printed and wrote about the Wyckoff scan

evalVars == <<close, dmFlags, wySignal>>
cacheVars == <<now, cache, fetch_calls, tickers, interval_label, interval, price_data>>
scanVars == <<idx, results, sector_counts, candle_date>>
wyVars == <<wy_ret, report>>
vars == <<pc, evalVars, cacheVars, scanVars, wyVars>>

\* ------------------------------------------------------------------------
\* Bounds of the model
\* ------------------------------------------------------------------------
MinLen == 17
MaxLen == 22
MinWyLen == 33
MaxWyLen == 37
MaxUniverse == 101
MaxTickers == 3
MaxEntries == 3

\* ------------------------------------------------------------------------
\* Values before an operation has run
\* ------------------------------------------------------------------------
NoDate == "None"

EvalIdle ==
    /\ close = <<>>
    /\ dmFlags = [DM9Top |-> FALSE, DM13Top |-> FALSE, DM9Bot |-> FALSE, DM13Bot |-> FALSE]
    /\ wySignal = FALSE

CacheIdle ==
    /\ now = [utc_weekday |-> 0, et_weekday |-> 0, et_after_close |-> FALSE]
    /\ cache = <<>>
    /\ fetch_calls = 0
    /\ tickers = <<>>
    /\ interval_label = "1D"
    /\ interval = "1d"
    /\ price_data = <<>>

ScanIdle ==
    /\ idx = 0
    /\ results = [Tops |-> <<>>, Bottoms |-> <<>>]
    /\ sector_counts = [Tops |-> <<>>, Bottoms |-> <<>>]
    /\ candle_date = NoDate

WyIdle ==
    /\ wy_ret = [type |-> "list", items |-> <<>>]
    /\ report = [count |-> 0, html |-> "none"]

\* ------------------------------------------------------------------------
\* Helpers
\* ------------------------------------------------------------------------
SetMax(S) == CHOOSE x \in S : \A y \in S : y <= x

RECURSIVE SumSeq(_)
SumSeq(s) == IF s = <<>> THEN 0 ELSE s[1] + SumSeq(Tail(s))

\* ------------------------------------------------------------------------
\* compute_dm_signals (src/main.py:93-123)
\* ------------------------------------------------------------------------
DMThreshold == 20

NoFlags == [DM9Top |-> FALSE, DM13Top |-> FALSE, DM9Bot |-> FALSE, DM13Bot |-> FALSE]

\* TDArray with the comparison weakened to >=
TDArray_ge(c) ==
    LET f[k \in 0..Len(c)] ==
            IF k <= 4 THEN 0
            ELSE IF c[k] >= c[k - 4] THEN f[k - 1] + 1 ELSE 0
    IN  [k \in 1..Len(c) |-> f[k]]

\* TD[i] = TD[i-1] + 1 if close[i] > close[i-4] else 0, for i in range(4, length)
TDArray(c) ==
    LET f[k \in 0..Len(c)] ==
            IF k <= 4 THEN 0
            ELSE IF c[k] > c[k - 4] THEN f[k - 1] + 1 ELSE 0
    IN  [k \in 1..Len(c) |-> f[k]]

\* TS[i] = TS[i-1] + 1 if close[i] < close[i-4] else 0, for i in range(4, length)
TSArray(c) ==
    LET f[k \in 0..Len(c)] ==
            IF k <= 4 THEN 0
            ELSE IF c[k] < c[k - 4] THEN f[k - 1] + 1 ELSE 0
    IN  [k \in 1..Len(c) |-> f[k]]

\* the scan returning the value before the drop, arr[j - 1]
RECURSIVE valuewhen_scan_prev(_, _)
valuewhen_scan_prev(arr, q) ==
    IF q < 2 THEN 0
    ELSE IF arr[q] < arr[q - 1] THEN arr[q - 1]
    ELSE valuewhen_scan_prev(arr, q - 1)

\* the loop of valuewhen_reset: for j in range(idx - 1, 0, -1), at position q = j+1
RECURSIVE valuewhen_scan(_, _)
valuewhen_scan(arr, q) ==
    IF q < 2 THEN 0
    ELSE IF arr[q] < arr[q - 1] THEN arr[q]
    ELSE valuewhen_scan(arr, q - 1)

\* valuewhen_reset(arr, idx) with idx at position p = idx+1
valuewhen_reset(arr, p) == valuewhen_scan(arr, p - 1)

TDUpArray(c) ==
    LET TD == TDArray(c)
    IN  [k \in 1..Len(c) |-> IF k <= 4 THEN 0 ELSE TD[k] - valuewhen_reset(TD, k)]

TDDnArray(c) ==
    LET TS == TSArray(c)
    IN  [k \in 1..Len(c) |-> IF k <= 4 THEN 0 ELSE TS[k] - valuewhen_reset(TS, k)]

compute_dm_signals(c) ==
    IF Len(c) < DMThreshold THEN NoFlags
    ELSE LET TDUp == TDUpArray(c)
             TDDn == TDDnArray(c)
             last == Len(c)
         IN  [DM9Top  |-> TDUp[last] = 9,
              DM13Top |-> TDUp[last] = 13,
              DM9Bot  |-> TDDn[last] = 9,
              DM13Bot |-> TDDn[last] = 13]

\* ------------------------------------------------------------------------
\* compute_wyckoff_signals (src/main.py:125-149)
\* ------------------------------------------------------------------------
WyThreshold == 35
WyLookback == 30
WyStreak == 5

\* prev_30_max with the current bar inside the window (close.iloc[-30:])
prev_30_max_incl(c) == SetMax({c[k] : k \in (Len(c) - WyLookback + 1)..Len(c)})

\* close.iloc[-31:-1].max()
prev_30_max(c) == SetMax({c[k] : k \in (Len(c) - WyLookback)..(Len(c) - 1)})

\* (close.diff() > 0).astype(int); diff() of the first bar is NaN, NaN > 0 is False
up_days(c) == [k \in 1..Len(c) |-> IF k > 1 /\ c[k] - c[k - 1] > 0 THEN 1 ELSE 0]

\* up_days.iloc[-5:].sum()
last_5_count(c) == SumSeq(SubSeq(up_days(c), Len(c) - WyStreak + 1, Len(c)))

compute_wyckoff_signals(c) ==
    IF Len(c) < WyThreshold THEN FALSE
    ELSE LET is_breakout == c[Len(c)] > prev_30_max(c)
             is_trending == last_5_count(c) > 4
         IN  is_breakout /\ is_trending

\* ------------------------------------------------------------------------
\* Input series
\* ------------------------------------------------------------------------
\* a series of n bars starting at base whose bar-to-bar change is d1 up to
\* position a, d2 up to position b and d3 afterwards
RECURSIVE Walk(_, _, _, _, _, _, _)
Walk(n, base, a, b, d1, d2, d3) ==
    IF n = 0 THEN <<>>
    ELSE IF n = 1 THEN <<base>>
    ELSE LET prev == Walk(n - 1, base, a, b, d1, d2, d3)
             d == IF n - 1 <= a THEN d1 ELSE IF n - 1 <= b THEN d2 ELSE d3
         IN  Append(prev, prev[n - 1] + d)

Deltas == {-1, 0, 1}

DMSeries ==
    { Walk(n, 100, a, b, d1, d2, d3) :
        n \in MinLen..MaxLen, a \in {4, 6, 7, 8, 10, 11, 12},
        b \in {9, 13, 15, 16, 18}, d1 \in Deltas, d2 \in Deltas, d3 \in Deltas }

\* n bars at base with one bar at base+peak at position pp, ending in five
\* bars whose changes are ds
WySeriesOf(n, base, pp, peak, ds) ==
    LET flat == [k \in 1..(n - 5) |-> IF k = pp THEN base + peak ELSE base]
        tail == [k \in 1..5 |-> base + SumSeq(SubSeq(ds, 1, k))]
    IN  flat \o tail

WySeries ==
    { WySeriesOf(n, base, n - off, peak, ds) :
        n \in MinWyLen..MaxWyLen, base \in {-4, 100}, off \in {31, 30, 6},
        peak \in {0, 4, 5, 6}, ds \in [1..5 -> Deltas] }

\* ------------------------------------------------------------------------
\* Evaluating one series
\* ------------------------------------------------------------------------
InitDM ==
    /\ pc = "call"
    /\ close \in DMSeries
    /\ dmFlags = NoFlags
    /\ wySignal = FALSE
    /\ CacheIdle /\ ScanIdle /\ WyIdle

EvalDM ==
    /\ pc = "call"
    /\ dmFlags' = compute_dm_signals(close)
    /\ pc' = "done"
    /\ UNCHANGED <<close, wySignal, cacheVars, scanVars, wyVars>>

NextDM == EvalDM

SpecDM == InitDM /\ [][NextDM]_vars

InitWy ==
    /\ pc = "call"
    /\ close \in WySeries
    /\ dmFlags = NoFlags
    /\ wySignal = FALSE
    /\ CacheIdle /\ ScanIdle /\ WyIdle

EvalWy ==
    /\ pc = "call"
    /\ wySignal' = compute_wyckoff_signals(close)
    /\ pc' = "done"
    /\ UNCHANGED <<close, dmFlags, cacheVars, scanVars, wyVars>>

NextWy == EvalWy

SpecWy == InitWy /\ [][NextWy]_vars

\* ------------------------------------------------------------------------
\* The clock (src/main.py:41-44, 50-51)
\* ------------------------------------------------------------------------
\* weekday() is 0 for Monday .. 6 for Sunday.  US/Eastern is 4 or 5 hours
\* behind UTC, so before 16:30 Eastern the UTC date is the Eastern date and
\* after 16:30 Eastern it is the same or the next day.
Clocks ==
    { c \in [utc_weekday : 0..6, et_weekday : 0..6, et_after_close : BOOLEAN] :
        \/ c.utc_weekday = c.et_weekday
        \/ c.et_after_close /\ c.utc_weekday = (c.et_weekday + 1) % 7 }

is_friday_after_close(c) == c.et_weekday = 4 /\ c.et_after_close

is_weekend(c) == c.utc_weekday >= 5

\* ------------------------------------------------------------------------
\* load_or_fetch_price_data (src/main.py:46-87)
\* ------------------------------------------------------------------------
batch_size == 50

Min(a, b) == IF a < b THEN a ELSE b

\* an ordered dict is a sequence of [ticker, df] entries with distinct tickers
DictKeys(d) == {d[i].ticker : i \in 1..Len(d)}

DictGet(d, t) == (CHOOSE e \in {d[i] : i \in 1..Len(d)} : e.ticker = t).df

\* range(0, len(tickers), batch_size)
NumBatches(ts) == (Len(ts) + batch_size - 1) \div batch_size

\* tickers[i:i + batch_size] for the b-th batch
Batch(ts, b) == SubSeq(ts, (b - 1) * batch_size + 1, Min(b * batch_size, Len(ts)))

\* the body of the batch loop: resp is what t.history() did for this batch,
\* a DataFrame indexed by ticker ("frame"), some other value ("other"), or
\* an exception ("raise").  The tickers are the keys of a dict, hence
\* distinct, so every all_data[ticker] = ... adds a new last entry.
FetchBatch(all_data, batch, resp) ==
    IF resp.kind = "frame"
    THEN LET InFrame(t) == t \in DOMAIN resp.data
             found == SelectSeq(batch, InFrame)
         IN  all_data \o [k \in 1..Len(found) |-> [ticker |-> found[k], df |-> resp.data[found[k]]]]
    ELSE all_data

RECURSIVE FetchBatches(_, _, _, _)
FetchBatches(all_data, ts, b, responses) ==
    IF b > NumBatches(ts) THEN all_data
    ELSE FetchBatches(FetchBatch(all_data, Batch(ts, b), responses[b]), ts, b + 1, responses)

\* CacheStore writing an empty mapping instead of the fetched one
CacheStore_empty(cch, key, mapping) ==
    [k \in DOMAIN cch \cup {key} |-> IF k = key THEN <<>> ELSE cch[k]]

\* pickle.dump(all_data, f) into the file of cache_key
CacheStore(cch, key, mapping) ==
    [k \in DOMAIN cch \cup {key} |-> IF k = key THEN mapping ELSE cch[k]]

\* the call's return value, the cache it leaves and the provider calls made
load_or_fetch_price_data(ts, cache_key, cch, clock, responses) ==
    IF is_weekend(clock) /\ cache_key \in DOMAIN cch
    THEN [ret |-> cch[cache_key], cache |-> cch, calls |-> 0]
    ELSE LET all_data == FetchBatches(<<>>, ts, 1, responses)
         IN  [ret |-> all_data,
              cache |-> CacheStore(cch, cache_key, all_data),
              calls |-> NumBatches(ts)]

\* ------------------------------------------------------------------------
\* Calling load_or_fetch_price_data on its own
\* ------------------------------------------------------------------------
\* a complete data frame of flat closes
FlatDF ==
    [cols |-> {"close", "date"}, closes |-> [k \in 1..20 |-> 100],
     numeric |-> TRUE, dtype |-> "float64", day |-> 1, tz |-> FALSE]

\* what the provider may answer for a batch: every ticker, every ticker but
\* the first of the batch, something that is no DataFrame, or an exception
BatchResponses(batch) ==
    { [kind |-> "frame", data |-> [t \in {batch[k] : k \in 1..Len(batch)} |-> FlatDF]],
      [kind |-> "frame", data |-> [t \in {batch[k] : k \in 2..Len(batch)} |-> FlatDF]],
      [kind |-> "other", data |-> <<>>],
      [kind |-> "raise", data |-> <<>>] }

\* one answer per batch
ResponsesFor(ts) ==
    { r \in [1..NumBatches(ts) -> UNION {BatchResponses(Batch(ts, b)) : b \in 1..NumBatches(ts)}] :
        \A b \in 1..NumBatches(ts) : r[b] \in BatchResponses(Batch(ts, b)) }

OldMapping == <<[ticker |-> 7, df |-> FlatDF], [ticker |-> 3, df |-> FlatDF]>>

InitCache ==
    /\ pc = "call"
    /\ EvalIdle /\ ScanIdle /\ WyIdle
    /\ now \in Clocks
    /\ cache \in {<<>>, [k \in {"1D"} |-> OldMapping], [k \in {"1D", "1W"} |-> OldMapping]}
    /\ fetch_calls = 0
    /\ tickers \in {[k \in 1..n |-> k] : n \in {0, 1, batch_size, batch_size + 1, MaxUniverse}}
    /\ interval_label \in {"1D", "1W"}
    /\ interval = IF interval_label = "1W" THEN "1wk" ELSE "1d"
    /\ price_data = <<>>

LoadOrFetch ==
    /\ pc = "call"
    /\ \E responses \in ResponsesFor(tickers) :
         LET r == load_or_fetch_price_data(tickers, interval_label, cache, now, responses)
         IN  /\ price_data' = r.ret
             /\ cache' = r.cache
             /\ fetch_calls' = fetch_calls + r.calls
    /\ pc' = "done"
    /\ UNCHANGED <<evalVars, now, tickers, interval_label, interval, scanVars, wyVars>>

NextCache == LoadOrFetch

SpecCache == InitCache /\ [][NextCache]_vars

\* C6: on a weekend with a cache entry for the key, load_or_fetch_price_data
\* returns that entry, calls the provider not at all and leaves the cache as
\* it was; in every other case it calls the provider for every batch and
\* stores under the key exactly the mapping it returns, leaving the other
\* entries alone.
C6_CacheContract ==
    [][(pc = "call" /\ pc' = "done") =>
        IF is_weekend(now) /\ interval_label \in DOMAIN cache
        THEN /\ price_data' = cache[interval_label]
             /\ cache' = cache
             /\ fetch_calls' = fetch_calls
        ELSE /\ fetch_calls' = fetch_calls + (Len(tickers) + 49) \div 50
             /\ DOMAIN cache' = DOMAIN cache \cup {interval_label}
             /\ cache'[interval_label] = price_data'
             /\ \A k \in DOMAIN cache \ {interval_label} : cache'[k] = cache[k]
             /\ DictKeys(price_data') \subseteq {tickers[k] : k \in 1..Len(tickers)}]_vars

C6_Witness ==
    /\ pc = "done"
    /\ is_weekend(now)
    /\ fetch_calls = 0
    /\ interval_label \in DOMAIN cache
    /\ price_data = OldMapping

\* ------------------------------------------------------------------------
\* Properties of the evaluators
\* ------------------------------------------------------------------------
\* length of the run of bars ending at position k that each close above
\* (dir = 1) or below (dir = -1) the bar four positions earlier
RunLength(c, k, dir) ==
    SetMax({r \in 0..k : \A m \in (k - r + 1)..k :
                m >= 5 /\ (IF dir = 1 THEN c[m] > c[m - 4] ELSE c[m] < c[m - 4])})

RunCounter(c, dir) == [k \in 1..Len(c) |-> RunLength(c, k, dir)]

\* the counter's value at the latest position before p where it dropped
ResetValue(arr, p) ==
    LET R == {q \in 2..(p - 1) : arr[q] < arr[q - 1]}
    IN  IF R = {} THEN 0 ELSE arr[SetMax(R)]

Rebased(c, dir) ==
    LET arr == RunCounter(c, dir)
    IN  arr[Len(c)] - ResetValue(arr, Len(c))

\* C4: compute_dm_signals returns all four flags false for a series shorter
\* than 20 bars, and otherwise reports whether the re-based up and down
\* run-length counters at the last bar equal 9 or 13.
C4_DMFlags ==
    pc = "done" =>
        dmFlags = IF Len(close) < 20 THEN NoFlags
                  ELSE [DM9Top  |-> Rebased(close, 1) = 9,
                        DM13Top |-> Rebased(close, 1) = 13,
                        DM9Bot  |-> Rebased(close, -1) = 9,
                        DM13Bot |-> Rebased(close, -1) = 13]

C4_Witness ==
    /\ pc = "done"
    /\ Len(close) >= 20
    /\ dmFlags.DM13Top

\* C5: compute_wyckoff_signals returns true exactly when the series has at
\* least 35 bars, the last close is strictly above each of the 30 closes
\* before it, and each of the last 5 bars closes strictly above its
\* predecessor.
C5_Wyckoff ==
    pc = "done" =>
        (wySignal <=>
            /\ Len(close) >= 35
            /\ \A k \in (Len(close) - 30)..(Len(close) - 1) : close[Len(close)] > close[k]
            /\ \A k \in (Len(close) - 4)..Len(close) : close[k] > close[k - 1])

C5_Witness ==
    /\ pc = "done"
    /\ wySignal
    /\ Len(close) >= 35

\* C12: on the counter arrays of a series valuewhen_reset returns 0 at every
\* index, so TDUp is TD and TDDn is TS; on a series of at least 20 bars, for
\* which the arrays are computed, the flags tell whether the run length at
\* the last bar is 9 or 13, and no series has a Top and a Bottom flag.
C12_ResetIsZero ==
    pc = "done" =>
        LET TD == TDArray(close)
            TS == TSArray(close)
            last == Len(close)
        IN  /\ \A p \in 1..last :
                  valuewhen_reset(TD, p) = 0 /\ valuewhen_reset(TS, p) = 0
            /\ TDUpArray(close) = TD
            /\ TDDnArray(close) = TS
            /\ last >= 20 =>
                  /\ dmFlags.DM9Top  <=> RunLength(close, last, 1) = 9
                  /\ dmFlags.DM13Top <=> RunLength(close, last, 1) = 13
                  /\ dmFlags.DM9Bot  <=> RunLength(close, last, -1) = 9
                  /\ dmFlags.DM13Bot <=> RunLength(close, last, -1) = 13
            /\ ~((dmFlags.DM9Top \/ dmFlags.DM13Top) /\ (dmFlags.DM9Bot \/ dmFlags.DM13Bot))

C12_Witness ==
    /\ pc = "done"
    /\ Len(close) >= 20
    /\ dmFlags.DM9Top
    /\ \E q \in 2..(Len(close) - 1) : TDArray(close)[q] < TDArray(close)[q - 1]

\* C11: on a series of at least 20 bars the re-based counts TDUp[i] and
\* TDDn[i] lie between 0 and 13 at every index i.
C11_BoundedOscillator ==
    (pc = "done" /\ Len(close) >= 20) =>
        \A k \in 1..Len(close) :
            /\ TDUpArray(close)[k] >= 0 /\ TDUpArray(close)[k] <= 13
            /\ TDDnArray(close)[k] >= 0 /\ TDDnArray(close)[k] <= 13

\* ------------------------------------------------------------------------
\* scan_timeframe (src/main.py:155-207)
\* ------------------------------------------------------------------------
\* A data frame is modelled by what the scanners read of it:
\*   cols     which of the columns 'close' and 'date' it has after reset_index
\*   closes   its rows' closes (no rows: df.empty)
\*   numeric  every close is a number (else one of the bars before the last
\*            holds None, and comparing closes raises TypeError)
\*   dtype    "float64" for numpy scalars, "object" for Python numbers
\*   day, tz  the last bar's date and whether it carries a time zone
Range(seq) == {seq[i] : i \in 1..Len(seq)}

Front(seq) == SubSeq(seq, 1, Len(seq) - 1)

Last(seq) == seq[Len(seq)]

\* the timeframes main scans: (interval_label, interval)
Timeframes == {<<"1D", "1d">>, <<"1W", "1wk">>, <<"Sector", "1d">>}

\* the content of the reference tables; ticker_sector_map and
\* ticker_industry_map, built together, have the keys tickers
SectorOf(t) == IF t % 2 = 1 THEN "Tech" ELSE "Energy"

IndustryOf(t) == IF t % 2 = 1 THEN "Software" ELSE "Oil"

\* ticker_sector_map.get(ticker, "Unknown")
sector_get(ts, t) == IF t \in Range(ts) THEN SectorOf(t) ELSE "Unknown"

\* ticker_industry_map.get(ticker, "Unknown")
industry_get(ts, t) == IF t \in Range(ts) THEN IndustryOf(t) ELSE "Unknown"

DayNames == <<"2024-01-01", "2024-01-02", "2024-01-03", "2024-01-04",
              "2024-01-05", "2024-01-06", "2024-01-07", "2024-01-08">>

\* last_date.tz_localize(None) when the date carries a time zone
Localize(d) == IF d.tz THEN [d EXCEPT !.tz = FALSE] ELSE d

\* last_date.strftime("%Y-%m-%d")
Strftime(d) == DayNames[d.day]

\* datetime.utcnow().strftime("%Y-%m-%d")
RunDate(clock) ==
    <<"2024-02-05", "2024-02-06", "2024-02-07", "2024-02-08",
      "2024-02-09", "2024-02-10", "2024-02-11">>[clock.utc_weekday + 1]

\* the date handling that replaces the candle date on every ticker
DateHandling_always(cd, df) == Strftime(Localize([day |-> df.day, tz |-> df.tz]))

\* if not candle_date: ... candle_date = last_date.strftime("%Y-%m-%d")
DateHandling(cd, df) ==
    IF cd = NoDate THEN Strftime(Localize([day |-> df.day, tz |-> df.tz])) ELSE cd

\* a tally that records the sector without counting
Tally_set(counts, sector) ==
    [k \in DOMAIN counts \cup {sector} |-> IF k = sector THEN 1 ELSE counts[k]]

\* sector_counts[bucket][sector] += 1 on a defaultdict(int)
Tally(counts, sector) ==
    [k \in DOMAIN counts \cup {sector} |->
        IF k = sector THEN (IF sector \in DOMAIN counts THEN counts[sector] ELSE 0) + 1
        ELSE counts[k]]

\* the body of the per-ticker loop on the scan's accumulators
\* st = [results, sector_counts, candle_date]; an exception leaves what was
\* assigned before it
ScanBody(st, ticker, df, label, ts) ==
    IF Len(df.closes) = 0 THEN st
    ELSE IF "close" \notin df.cols THEN st
    ELSE IF st.candle_date = NoDate /\ "date" \notin df.cols THEN st
    ELSE
      LET last_close == df.closes[Len(df.closes)]
          st1 == [st EXCEPT !.candle_date = DateHandling(@, df)]
      IN  IF ~df.numeric /\ Len(df.closes) >= DMThreshold THEN st1
          ELSE
            LET f == compute_dm_signals(df.closes)
                sector == sector_get(ts, ticker)
                industry == IF label = "Sector" THEN sector_get(ts, ticker)
                            ELSE industry_get(ts, ticker)
                top == [ticker |-> ticker, last_close |-> last_close,
                        signal |-> IF f.DM13Top THEN "DM13 Top" ELSE "DM9 Top",
                        industry |-> industry]
                bot == [ticker |-> ticker, last_close |-> last_close,
                        signal |-> IF f.DM13Bot THEN "DM13 Bot" ELSE "DM9 Bot",
                        industry |-> industry]
                st2 == IF f.DM9Top \/ f.DM13Top
                       THEN [st1 EXCEPT !.results.Tops = Append(@, top),
                                        !.sector_counts.Tops = Tally(@, sector)]
                       ELSE st1
            IN  IF f.DM9Bot \/ f.DM13Bot
                THEN [st2 EXCEPT !.results.Bottoms = Append(@, bot),
                                 !.sector_counts.Bottoms = Tally(@, sector)]
                ELSE st2

RECURSIVE InsertByTicker(_, _)
InsertByTicker(sorted, m) ==
    IF sorted = <<>> THEN <<m>>
    ELSE IF Last(sorted).ticker <= m.ticker THEN Append(sorted, m)
    ELSE Append(InsertByTicker(Front(sorted), m), Last(sorted))

\* the matches left in the order they were found
SortByTicker_none(matches) == matches

\* sorted(matches, key=lambda x: x[0]); sorted() is stable
RECURSIVE SortByTicker(_)
SortByTicker(matches) ==
    IF matches = <<>> THEN <<>>
    ELSE InsertByTicker(SortByTicker(Front(matches)), Last(matches))

\* ------------------------------------------------------------------------
\* Inputs of a scan
\* ------------------------------------------------------------------------
UpRun9 == Walk(21, 100, 11, 11, 0, 1, 1)

DownRun13 == Walk(20, 100, 6, 6, 0, -1, -1)

GoodDF(t, closes) ==
    [cols |-> {"close", "date"}, closes |-> closes,
     numeric |-> TRUE, dtype |-> "float64", day |-> t, tz |-> (t % 2 = 0)]

Kinds == {"empty", "noclose", "nodate", "mixed", "top9", "bot13"}

\* the frame of each kind for ticker t
DFOf(kind, t) ==
    CASE kind = "empty"   -> GoodDF(t, <<>>)
      [] kind = "noclose" -> [GoodDF(t, UpRun9) EXCEPT !.cols = {"date"}]
      [] kind = "nodate"  -> [GoodDF(t, UpRun9) EXCEPT !.cols = {"close"}]
      [] kind = "mixed"   -> [GoodDF(t, UpRun9) EXCEPT !.numeric = FALSE, !.dtype = "object"]
      [] kind = "top9"    -> GoodDF(t, UpRun9)
      [] kind = "bot13"   -> GoodDF(t, DownRun13)

\* the key orders of a ticker_sector_map
Universes ==
    UNION { { u \in [1..n -> 1..MaxTickers] : \A i, j \in 1..n : i # j => u[i] # u[j] } :
            n \in 0..Min(MaxEntries, MaxTickers) }

\* the DataFrames the provider may return for a batch: any of the batch's
\* tickers, each with a frame of any kind
FrameData(batch) ==
    UNION { { [t \in S |-> DFOf(k[t], t)] : k \in [S -> Kinds] } : S \in SUBSET Range(batch) }

ScanResponses(ts) ==
    IF ts = <<>> THEN {<<>>}
    ELSE { <<r>> : r \in {[kind |-> "raise", data |-> <<>>]}
                         \cup {[kind |-> "frame", data |-> d] : d \in FrameData(ts)} }

\* mappings left in the cache by earlier runs, of other universes too
CachedMappings ==
    { <<[ticker |-> 3, df |-> DFOf("top9", 3)], [ticker |-> 1, df |-> DFOf("top9", 1)],
        [ticker |-> 2, df |-> DFOf("bot13", 2)]>>,
      <<[ticker |-> 2, df |-> DFOf("nodate", 2)], [ticker |-> 1, df |-> DFOf("empty", 1)]>>,
      <<[ticker |-> 2, df |-> DFOf("mixed", 2)], [ticker |-> 3, df |-> DFOf("nodate", 3)],
        [ticker |-> 1, df |-> DFOf("bot13", 1)]>> }

Tuesday == [utc_weekday |-> 1, et_weekday |-> 1, et_after_close |-> FALSE]

Saturday == [utc_weekday |-> 5, et_weekday |-> 5, et_after_close |-> FALSE]

InitScan ==
    /\ pc = "call"
    /\ EvalIdle /\ ScanIdle /\ WyIdle
    /\ fetch_calls = 0
    /\ price_data = <<>>
    /\ tickers \in Universes
    /\ \E tf \in Timeframes : interval_label = tf[1] /\ interval = tf[2]
    /\ \/ now = Tuesday /\ cache = <<>>
       \/ /\ now = Saturday
          /\ cache \in {[k \in {interval_label} |-> m] : m \in CachedMappings}

\* lines 156-164: the accumulators and the price data
ScanStart ==
    /\ pc = "call"
    /\ \E responses \in ScanResponses(tickers) :
         LET r == load_or_fetch_price_data(tickers, interval_label, cache, now, responses)
         IN  /\ price_data' = r.ret
             /\ cache' = r.cache
             /\ fetch_calls' = fetch_calls + r.calls
    /\ results' = [Tops |-> <<>>, Bottoms |-> <<>>]
    /\ sector_counts' = [Tops |-> <<>>, Bottoms |-> <<>>]
    /\ candle_date' = NoDate
    /\ idx' = 1
    /\ pc' = "loop"
    /\ UNCHANGED <<evalVars, now, tickers, interval_label, interval, wyVars>>

\* lines 166-199: one iteration of the per-ticker loop
ScanTicker ==
    /\ pc = "loop"
    /\ idx <= Len(price_data)
    /\ LET st == ScanBody([results |-> results, sector_counts |-> sector_counts,
                           candle_date |-> candle_date],
                          price_data[idx].ticker, price_data[idx].df,
                          interval_label, tickers)
       IN  /\ results' = st.results
           /\ sector_counts' = st.sector_counts
           /\ candle_date' = st.candle_date
    /\ idx' = idx + 1
    /\ UNCHANGED <<pc, evalVars, cacheVars, wyVars>>

\* lines 201-207: the sorts, the date fallback and the return
ScanFinish ==
    /\ pc = "loop"
    /\ idx > Len(price_data)
    /\ results' = [Tops |-> SortByTicker(results.Tops),
                   Bottoms |-> SortByTicker(results.Bottoms)]
    /\ candle_date' = IF candle_date = NoDate THEN RunDate(now) ELSE candle_date
    /\ pc' = "done"
    /\ UNCHANGED <<idx, sector_counts, evalVars, cacheVars, wyVars>>

NextScan == ScanStart \/ ScanTicker \/ ScanFinish

SpecScan == InitScan /\ [][NextScan]_vars

\* ------------------------------------------------------------------------
\* Properties of scan_timeframe
\* ------------------------------------------------------------------------
RECURSIVE SumFn(_)
SumFn(f) ==
    IF DOMAIN f = {} THEN 0
    ELSE LET k == CHOOSE x \in DOMAIN f : TRUE
         IN  f[k] + SumFn([j \in DOMAIN f \ {k} |-> f[j]])

MatchedTickers(matches) == {matches[i].ticker : i \in 1..Len(matches)}

\* a series that is empty, lacks one of its fields or holds a non-number
Defective(df) ==
    \/ Len(df.closes) = 0
    \/ df.cols # {"close", "date"}
    \/ ~df.numeric

\* C1: in each bucket the sector tallies sum to the number of matches, after
\* every iteration of the per-ticker loop and when the scan has finished.
C1_TalliesSum ==
    pc \in {"loop", "done"} =>
        /\ SumFn(sector_counts.Tops) = Len(results.Tops)
        /\ SumFn(sector_counts.Bottoms) = Len(results.Bottoms)

C1_Witness ==
    /\ pc = "done"
    /\ Len(results.Tops) >= 2
    /\ \E s \in DOMAIN sector_counts.Tops : sector_counts.Tops[s] >= 2
    /\ \E i \in 1..Len(price_data) :
          /\ Defective(price_data[i].df)
          /\ price_data[i].ticker \notin MatchedTickers(results.Tops)

\* C2: each returned match list is in strictly ascending order of ticker, so
\* it holds no ticker twice.
C2_Sorted ==
    pc = "done" =>
        /\ \A i, j \in 1..Len(results.Tops) :
              i < j => results.Tops[i].ticker < results.Tops[j].ticker
        /\ \A i, j \in 1..Len(results.Bottoms) :
              i < j => results.Bottoms[i].ticker < results.Bottoms[j].ticker

C2_Witness ==
    /\ pc = "done"
    /\ Len(results.Tops) >= 2
    /\ \E i, j \in 1..Len(price_data) :
          /\ i < j
          /\ price_data[i].ticker > price_data[j].ticker
          /\ {price_data[i].ticker, price_data[j].ticker} \subseteq MatchedTickers(results.Tops)

\* the accumulators after the per-ticker loop has run over data
RECURSIVE ScanAll(_, _, _)
ScanAll(data, label, ts) ==
    IF data = <<>>
    THEN [results |-> [Tops |-> <<>>, Bottoms |-> <<>>],
          sector_counts |-> [Tops |-> <<>>, Bottoms |-> <<>>],
          candle_date |-> NoDate]
    ELSE ScanBody(ScanAll(Front(data), label, ts), Last(data).ticker, Last(data).df, label, ts)

IsSound(entry) == ~Defective(entry.df)

\* C3: a ticker whose series is empty or malformed or makes the processing
\* raise contributes no match, and the matches and tallies of the scan are
\* those of the scan of the price data without such tickers.
C3_FailuresSkipped ==
    pc = "done" =>
        LET clean == ScanAll(SelectSeq(price_data, IsSound), interval_label, tickers)
        IN  /\ \A i \in 1..Len(price_data) :
                  Defective(price_data[i].df) =>
                      price_data[i].ticker \notin
                          MatchedTickers(results.Tops) \cup MatchedTickers(results.Bottoms)
            /\ results.Tops = SortByTicker(clean.results.Tops)
            /\ results.Bottoms = SortByTicker(clean.results.Bottoms)
            /\ sector_counts = clean.sector_counts

\* the trading week of the run is still open (Monday to Friday's close)
WeekInProgress(clock) == clock.et_weekday <= 4 /\ ~is_friday_after_close(clock)

\* C8: on weekly bars fetched while the week is still open, the flags of a
\* ticker are those of its series without the last bar.
C8_PartialWeekDropped ==
    (pc = "done" /\ interval = "1wk" /\ WeekInProgress(now)) =>
        \A i \in 1..Len(price_data) :
            ~Defective(price_data[i].df) =>
                LET f == compute_dm_signals(Front(price_data[i].df.closes))
                IN  /\ price_data[i].ticker \in MatchedTickers(results.Tops)
                        <=> (f.DM9Top \/ f.DM13Top)
                    /\ price_data[i].ticker \in MatchedTickers(results.Bottoms)
                        <=> (f.DM9Bot \/ f.DM13Bot)

\* the entries processed so far whose series has rows
NonEmptySoFar == {i \in 1..(idx - 1) : Len(price_data[i].df.closes) > 0}

\* the entries processed so far whose series has rows, closes and dates
DatedSoFar ==
    {i \in 1..(idx - 1) : /\ Len(price_data[i].df.closes) > 0
                          /\ {"close", "date"} \subseteq price_data[i].df.cols}

SetMin(S) == CHOOSE x \in S : \A y \in S : x <= y

\* C10 as stated: the candle date is the last-bar date of the first ticker
\* with a non-empty series, and the run date when there is none.
C10_FirstNonEmpty ==
    pc = "done" =>
        candle_date = IF NonEmptySoFar = {} THEN RunDate(now)
                      ELSE DayNames[price_data[SetMin(NonEmptySoFar)].df.day]

\* C10: the candle date is the last-bar date of the first ticker, in
\* processing order, whose series is non-empty and has both a close and a date
\* column; later tickers never change it, and the run date replaces it at the
\* end of the scan only when there is no such ticker.
C10_FirstDated ==
    pc \in {"loop", "done"} =>
        candle_date = IF DatedSoFar = {}
                      THEN (IF pc = "done" THEN RunDate(now) ELSE NoDate)
                      ELSE DayNames[price_data[SetMin(DatedSoFar)].df.day]

C10_Witness ==
    /\ pc = "done"
    /\ Len(price_data) >= 3
    /\ Cardinality(DatedSoFar) >= 2
    /\ SetMin(NonEmptySoFar) < SetMin(DatedSoFar)

\* ------------------------------------------------------------------------
\* scan_wyckoff_signals (src/main.py:209-249) and its caller
\* ------------------------------------------------------------------------
\* the order of the sector names as Python compares strings
SectorRank(sector) == CASE sector = "Energy" -> 1 [] sector = "Tech" -> 2 [] OTHER -> 3

\* (x[2], x[0]) <= (y[2], y[0])
SectorTickerLeq(x, y) ==
    \/ SectorRank(x.sector) < SectorRank(y.sector)
    \/ SectorRank(x.sector) = SectorRank(y.sector) /\ x.ticker <= y.ticker

RECURSIVE InsertBySector(_, _)
InsertBySector(sorted, m) ==
    IF sorted = <<>> THEN <<m>>
    ELSE IF SectorTickerLeq(Last(sorted), m) THEN Append(sorted, m)
    ELSE Append(InsertBySector(Front(sorted), m), Last(sorted))

\* sorted(results, key=lambda x: (x[2], x[0]))
RECURSIVE SortBySector(_)
SortBySector(matches) ==
    IF matches = <<>> THEN <<>>
    ELSE InsertBySector(SortBySector(Front(matches)), Last(matches))

\* ((close[-1] - close[-2]) / close[-2]) * 100 as the fraction num/den.
\* The closes of a float64 column are numpy scalars, whose division by zero
\* warns and gives inf or nan (den = 0); Python numbers of an object column
\* raise ZeroDivisionError instead.
PctRaises(df) == df.dtype = "object" /\ df.closes[Len(df.closes) - 1] = 0

pct_change(df) ==
    [num |-> (df.closes[Len(df.closes)] - df.closes[Len(df.closes) - 1]) * 100,
     den |-> df.closes[Len(df.closes) - 1]]

\* the body of the per-ticker loop on the list of matches
WyBody(matches, ticker, df, ts) ==
    IF ticker \notin Range(ts) THEN matches
    ELSE IF Len(df.closes) = 0 THEN matches
    ELSE IF "close" \notin df.cols THEN matches
    ELSE IF ~compute_wyckoff_signals(df.closes) THEN matches
    ELSE IF PctRaises(df) THEN matches
    ELSE Append(matches, [ticker |-> ticker,
                          last_close |-> df.closes[Len(df.closes)],
                          sector |-> sector_get(ts, ticker),
                          industry |-> industry_get(ts, ticker),
                          pct_change |-> pct_change(df)])

RECURSIVE WyLoop(_, _)
WyLoop(data, ts) ==
    IF data = <<>> THEN <<>>
    ELSE WyBody(WyLoop(Front(data), ts), Last(data).ticker, Last(data).df, ts)

\* the return value: the tuple ([], "N/A") without the daily cache file, the
\* sorted list of matches with it
scan_wyckoff_signals(ts, cch) ==
    IF "1D" \notin DOMAIN cch
    THEN [type |-> "tuple", first |-> <<>>, second |-> "N/A"]
    ELSE [type |-> "list", items |-> SortBySector(WyLoop(cch["1D"], ts))]

\* len(wyckoff_res)
PyLen(v) == IF v.type = "tuple" THEN 2 ELSE Len(v.items)

\* write_wyckoff_html (src/main.py:451-502): each element of the argument is
\* unpacked into five names; the [] of the tuple ([], "N/A") has none
write_wyckoff_html(v) == IF v.type = "tuple" THEN "raised" ELSE "written"

\* ------------------------------------------------------------------------
\* Inputs of a Wyckoff scan
\* ------------------------------------------------------------------------
Breakout == WySeriesOf(35, 100, 5, 0, <<1, 1, 1, 1, 1>>)

\* a breakout whose second-to-last close is 0
BreakoutFromZero == WySeriesOf(35, -4, 5, 0, <<1, 1, 1, 1, 1>>)

Quiet == WySeriesOf(35, 100, 5, 0, <<0, 0, 0, 0, 0>>)

WyKinds == {"empty", "noclose", "quiet", "sos", "sos0", "sos0obj"}

WyDFOf(kind, t) ==
    CASE kind = "empty"   -> GoodDF(t, <<>>)
      [] kind = "noclose" -> [GoodDF(t, Breakout) EXCEPT !.cols = {"date"}]
      [] kind = "quiet"   -> GoodDF(t, Quiet)
      [] kind = "sos"     -> GoodDF(t, Breakout)
      [] kind = "sos0"    -> GoodDF(t, BreakoutFromZero)
      [] kind = "sos0obj" -> [GoodDF(t, BreakoutFromZero) EXCEPT !.dtype = "object"]

\* the daily mappings a DeMark scan may have left in the cache
WyMappings ==
    { [i \in 1..Len(u) |-> [ticker |-> u[i], df |-> WyDFOf(k[i], u[i])]] :
        u \in Universes, k \in [1..MaxEntries -> WyKinds] }

InitWyScan ==
    /\ pc = "call"
    /\ EvalIdle /\ ScanIdle /\ WyIdle
    /\ now = Tuesday
    /\ fetch_calls = 0
    /\ price_data = <<>>
    /\ interval_label = "1D"
    /\ interval = "1d"
    /\ tickers \in {[k \in 1..n |-> k] : n \in {MaxTickers - 1, MaxTickers}}
    /\ cache \in {<<>>} \cup {[k \in {"1D"} |-> m] : m \in WyMappings}

\* main, line 547
ScanWyckoff ==
    /\ pc = "call"
    /\ wy_ret' = scan_wyckoff_signals(tickers, cache)
    /\ pc' = "scanned"
    /\ UNCHANGED <<report, evalVars, cacheVars, scanVars>>

\* main, lines 548 and 560
Report ==
    /\ pc = "scanned"
    /\ report' = [count |-> PyLen(wy_ret), html |-> write_wyckoff_html(wy_ret)]
    /\ pc' = "reported"
    /\ UNCHANGED <<wy_ret, evalVars, cacheVars, scanVars>>

NextWyScan == ScanWyckoff \/ Report

SpecWyScan == InitWyScan /\ [][NextWyScan]_vars

\* C7: without the daily cache entry the scan returns an empty list, as it
\* does on the normal path without matches, so the caller counts 0 matches
\* and the report is written.
C7_AbsentCacheEmptyList ==
    (pc = "reported" /\ "1D" \notin DOMAIN cache) =>
        /\ wy_ret.type = "list"
        /\ report.count = 0
        /\ report.html = "written"

\* C9: a ticker that passes the Wyckoff test with a second-to-last close of 0
\* is not among the returned matches.
C9_ZeroCloseSkipped ==
    (pc \in {"scanned", "reported"} /\ "1D" \in DOMAIN cache) =>
        \A i \in 1..Len(cache["1D"]) :
            LET e == cache["1D"][i]
            IN  (/\ Len(e.df.closes) >= 2
                 /\ "close" \in e.df.cols
                 /\ compute_wyckoff_signals(e.df.closes)
                 /\ e.df.closes[Len(e.df.closes) - 1] = 0)
                => e.ticker \notin MatchedTickers(wy_ret.items)

====
